---- MODULE Spec2Model ----
(***************************************************************************)
(* lib/sqlalchemy_sandbox.py: the Student table (primary key id, unique    *)
(* email, CHECK grade BETWEEN 1 AND 12) and the script that inserts,       *)
(* reads, updates and deletes students through one session on an empty     *)
(* in-memory SQLite database.  The script's two literal students are       *)
(* generalised to a list of at most MaxRecords students whose name, email  *)
(* and grade are drawn from small sets; ScriptStudents is the list the     *)
(* script itself builds.                                                   *)
(***************************************************************************)
EXTENDS Integers, Sequences, FiniteSets, TLC

\* ---------------------------------------------------------------- bounds
MaxRecords == 2
MaxClock == 2

\* ------------------------------------------------------- program constants
GradeMin == 1
GradeMax == 12

Einstein == "Albert Einstein"
Turing == "Alan Turing"
Names == {Einstein, Turing}
Emails == {"albert.einstein@zurich.edu", "alan.turing@sherborne.edu",
           "a.turing@princeton.edu"}
Grades == {0, 6, 11, 12, 13}

\* birthday=datetime(year=...) of the two students (year only)
BirthdayOf(name) == IF name = Einstein THEN 1879 ELSE 1912

VARIABLES
    pc,               \* the statement of the script that runs next
    clock,            \* wall-clock time read by datetime.now()
    enrolled_default, \* the default= value held by Student.enrolled_date
    new_students,     \* the transient Student objects handed to bulk_save_objects
    db,               \* the students table as the session's transaction sees it
    committed,        \* the students table as last committed
    loaded,           \* Student objects in the session, with their in-memory attributes
    deleted,          \* objects marked by session.delete, removed at the next flush
    students,         \* rows returned by the first session.query(Student)
    student_count,    \* result of the func.count query (-1: not yet run)
    albert_einstein,  \* result of query.first(): <<>> is None, <<row>> an object
    printed,          \* what the script has written to standard output
    error,            \* the exception that ended the script, "none" while it runs
    crashed_at        \* the statement that raised it

vars == <<pc, clock, enrolled_default, new_students, db, committed, loaded,
          deleted, students, student_count, albert_einstein, printed, error,
          crashed_at>>

\* -------------------------------------------------------------- the script
Statements == <<"class_Student", "create_all", "construct", "bulk_save_objects",
    "commit_insert", "read_all", "read_names", "read_by_name",
    "read_by_grade_desc", "read_oldest", "count", "filter_alan",
    "update_loop", "commit_update", "read_after_update", "query_update",
    "read_after_query_update", "first_for_delete", "session_delete",
    "commit_delete", "first_after_delete", "query_delete",
    "first_after_query_delete", "done">>

Index(label) == CHOOSE i \in 1..Len(Statements) : Statements[i] = label

\* the statement after `label` in the file
Following(label) == Statements[Index(label) + 1]

\* label `a` comes strictly before label `b` in the file
Before(a, b) == Index(a) < Index(b)

\* the two students the script constructs (lines 51-77), without the clock
ScriptStudents == << [name |-> Einstein, email |-> "albert.einstein@zurich.edu", grade |-> 6],
                     [name |-> Turing, email |-> "alan.turing@sherborne.edu", grade |-> 11] >>

\* the columns of new_students the caller sets
Given(objs) == [i \in 1..Len(objs) |->
                  [name |-> objs[i].name, email |-> objs[i].email, grade |-> objs[i].grade]]

Init ==
    /\ pc = "class_Student"
    /\ clock = 0
    /\ enrolled_default = -1
    /\ new_students = <<>>
    /\ db = <<>>
    /\ committed = <<>>
    /\ loaded = {}
    /\ deleted = {}
    /\ students = <<>>
    /\ student_count = -1
    /\ albert_einstein = <<>>
    /\ printed = <<>>
    /\ error = "none"
    /\ crashed_at = "none"

\* ------------------------------------------------------- the storage layer
\* variant of CheckGrade: the upper end off by one
GradeOffByOne(grade) == grade >= GradeMin /\ grade <= GradeMax + 1

\* CheckConstraint('grade BETWEEN 1 AND 12')
CheckGrade(grade) == grade >= GradeMin /\ grade <= GradeMax

\* variant of UniqueEmail: the constraint is not declared
EmailUnchecked(tbl, email) == TRUE

\* UniqueConstraint('email'): no row of the table holds this email
UniqueEmail(tbl, email) == \A i \in 1..Len(tbl) : tbl[i].email # email

\* PrimaryKeyConstraint('id') on an Integer column: the row id SQLite assigns
MaxId(tbl) == IF tbl = <<>> THEN 0
              ELSE CHOOSE m \in {tbl[i].id : i \in 1..Len(tbl)} :
                     \A i \in 1..Len(tbl) : tbl[i].id <= m
NextId(tbl) == MaxId(tbl) + 1

\* variant of InsertRow: the new row is read back before the older ones
InsertRowFirst(tbl, obj) ==
    <<[id |-> NextId(tbl), name |-> obj.name, email |-> obj.email,
       grade |-> obj.grade, birthday |-> obj.birthday,
       enrolled_date |-> enrolled_default, created |-> obj.created]>> \o tbl

\* one INSERT: the columns of the object, the id assigned by the table and
\* enrolled_date filled from the column default; rows are kept in id order.
\* `created`, the time the object was constructed, is carried along only to
\* compare enrolled_date with it.
InsertRow(tbl, obj) ==
    Append(tbl, [id |-> NextId(tbl), name |-> obj.name, email |-> obj.email,
                 grade |-> obj.grade, birthday |-> obj.birthday,
                 enrolled_date |-> enrolled_default, created |-> obj.created])

CanInsert(tbl, obj) == CheckGrade(obj.grade) /\ UniqueEmail(tbl, obj.email)

\* bulk_save_objects(objs): one INSERT per object, in list order, stopping at
\* the first one the table rejects
RECURSIVE BulkInsert(_, _)
BulkInsert(tbl, objs) ==
    IF objs = <<>> THEN [ok |-> TRUE, table |-> tbl]
    ELSE IF ~CanInsert(tbl, Head(objs)) THEN [ok |-> FALSE, table |-> tbl]
    ELSE BulkInsert(InsertRow(tbl, Head(objs)), Tail(objs))

\* session.query(Student): every row, in id order
SelectAll(tbl) == tbl

\* .filter(Student.name == name)
FilterByName(tbl, name) == SelectSeq(tbl, LAMBDA r : r.name = name)

\* Student.name.like('%Alan%')
LikeAlan(name) == name = Turing

\* .filter(Student.name.like('%Alan%'), Student.grade == 11)
FilterAlan11(tbl) == SelectSeq(tbl, LAMBDA r : LikeAlan(r.name) /\ r.grade = 11)

\* .first(): None (<<>>) or the first row
First(rows) == IF rows = <<>> THEN <<>> ELSE <<Head(rows)>>

\* variant of Count: off by one
CountPlusOne(tbl) == Len(tbl) + 1

\* func.count(Student.id): the rows whose id is not NULL, that is all of them
Count(tbl) == Len(tbl)

\* ORDER BY: the rows in any order that is ascending in the sort keys (ties
\* are not ordered); keys[i] is the key of tbl[i]
Perms(n) == {p \in [1..n -> 1..n] : \A i, j \in 1..n : i # j => p[i] # p[j]}
OrderBy(tbl, keys) ==
    {[i \in 1..Len(tbl) |-> tbl[p[i]]] :
        p \in {q \in Perms(Len(tbl)) :
                 \A i \in 1..(Len(tbl) - 1) : keys[q[i]] <= keys[q[i + 1]]}}

\* order_by(Student.name): "Alan Turing" sorts before "Albert Einstein"
NameRank(name) == IF name = Turing THEN 1 ELSE 2
ByName(tbl) == [i \in 1..Len(tbl) |-> NameRank(tbl[i].name)]

\* order_by(desc(Student.grade))
ByGradeDesc(tbl) == [i \in 1..Len(tbl) |-> 0 - tbl[i].grade]

\* Student.__repr__: "Student {id}: {name}, Grade {grade}"
Repr(obj) == <<"Student", obj.id, obj.name, "Grade", obj.grade>>

\* the lists the script prints
Reprs(rows) == [i \in 1..Len(rows) |-> Repr(rows[i])]
NamesOf(rows) == [i \in 1..Len(rows) |-> <<rows[i].name>>]
NameGrades(rows) == [i \in 1..Len(rows) |-> <<rows[i].name, rows[i].grade>>]
NameBirthdays(rows) == [i \in 1..Len(rows) |-> <<rows[i].name, rows[i].birthday>>]

\* --------------------------------------------------------------- the session
\* the objects a query returns enter the session; one already there keeps its
\* in-memory attributes
Load(rows) ==
    loaded \cup {rows[i] : i \in {j \in 1..Len(rows) :
                                    \A o \in loaded : o.id # rows[j].id}}

\* the session's object for a row
Object(objs, row) == IF \E o \in objs : o.id = row.id
                     THEN CHOOSE o \in objs : o.id = row.id
                     ELSE row

Objects(objs, rows) == [i \in 1..Len(rows) |-> Object(objs, rows[i])]

\* objects whose attributes differ from their row
Dirty(tbl) == {o \in loaded : \E i \in 1..Len(tbl) : tbl[i].id = o.id /\ tbl[i] # o}

\* flush: an UPDATE per dirty object, then a DELETE per deleted object
Flush(tbl) ==
    IF \A o \in Dirty(tbl) : CheckGrade(o.grade)
    THEN [ok |-> TRUE,
          table |-> SelectSeq([i \in 1..Len(tbl) |-> Object(Dirty(tbl), tbl[i])],
                              LAMBDA r : r.id \notin deleted)]
    ELSE [ok |-> FALSE, table |-> tbl]

\* variant of Rollback: the rows inserted before the failure stay
NoRollback(txn) == txn

\* the rollback after a failed bulk save or flush: the transaction's table
\* `txn` is dropped for the committed one
Rollback(txn) == committed

\* variant of Raise: the exception is swallowed and the script goes on
RaiseCaught(exc) == pc' = Following(pc) /\ error' = exc /\ crashed_at' = pc

\* an exception nobody catches ends the script at the statement that raised it
Raise(exc) == pc' = "crashed" /\ error' = exc /\ crashed_at' = pc

Go == pc' = Following(pc) /\ UNCHANGED <<error, crashed_at>>

Stdout(out) == printed' = Append(printed, [stmt |-> pc, out |-> out])

\* session.commit(): flush, then commit; a failed flush rolls the transaction
\* back.  Either way the session's objects are expired.
Commit ==
    LET r == Flush(db) IN
    /\ loaded' = {}
    /\ deleted' = {}
    /\ IF r.ok
       THEN db' = r.table /\ committed' = r.table /\ Go
       ELSE db' = Rollback(r.table) /\ committed' = committed /\ Raise("IntegrityError")

\* --------------------------------------------------- the script's statements
\* class Student(Base): default=datetime.now() is evaluated here, once
DefineStudent ==
    /\ pc = "class_Student"
    /\ enrolled_default' = clock
    /\ Go
    /\ UNCHANGED <<clock, new_students, db, committed, loaded, deleted, students,
                   student_count, albert_einstein, printed>>

\* create_engine('sqlite:///:memory:'), create_all, Session(): an empty table
CreateAll ==
    /\ pc = "create_all"
    /\ db' = <<>>
    /\ committed' = <<>>
    /\ loaded' = {}
    /\ deleted' = {}
    /\ Go
    /\ UNCHANGED <<clock, enrolled_default, new_students, students, student_count,
                   albert_einstein, printed>>

\* Student(name=..., email=..., grade=..., birthday=...): one more transient
\* object, built after `d` ticks of the clock; `last` closes the list
Construct ==
    /\ pc = "construct"
    /\ Len(new_students) < MaxRecords
    /\ \E name \in Names, email \in Emails, grade \in Grades, d \in 0..1, last \in BOOLEAN :
          /\ clock + d <= MaxClock
          /\ clock' = clock + d
          /\ new_students' = Append(new_students,
                 [name |-> name, email |-> email, grade |-> grade,
                  birthday |-> BirthdayOf(name), created |-> clock + d])
          /\ pc' = IF last \/ Len(new_students) + 1 = MaxRecords
                   THEN Following(pc) ELSE pc
    /\ UNCHANGED <<enrolled_default, db, committed, loaded, deleted, students,
                   student_count, albert_einstein, printed, error, crashed_at>>

\* session.bulk_save_objects([...]): the INSERTs run in the session's
\* transaction; a rejected INSERT rolls the transaction back and raises
BulkSaveObjects ==
    /\ pc = "bulk_save_objects"
    /\ LET r == BulkInsert(db, new_students) IN
         IF r.ok
         THEN db' = r.table /\ Go
         ELSE db' = Rollback(r.table) /\ Raise("IntegrityError")
    /\ UNCHANGED <<clock, enrolled_default, new_students, committed, loaded, deleted,
                   students, student_count, albert_einstein, printed>>

\* session.commit() after the bulk save
CommitInsert ==
    /\ pc = "commit_insert"
    /\ Commit
    /\ UNCHANGED <<clock, enrolled_default, new_students, students, student_count,
                   albert_einstein, printed>>

\* students = session.query(Student); print([student for student in students])
ReadAll ==
    /\ pc = "read_all"
    /\ students' = SelectAll(db)
    /\ loaded' = Load(SelectAll(db))
    /\ Stdout(Reprs(SelectAll(db)))
    /\ Go
    /\ UNCHANGED <<clock, enrolled_default, new_students, db, committed, deleted,
                   student_count, albert_einstein>>

\* names = [name for name in session.query(Student.name)]
ReadNames ==
    /\ pc = "read_names"
    /\ Stdout(NamesOf(SelectAll(db)))
    /\ Go
    /\ UNCHANGED <<clock, enrolled_default, new_students, db, committed, loaded,
                   deleted, students, student_count, albert_einstein>>

\* session.query(Student.name).order_by(Student.name)
ReadByName ==
    /\ pc = "read_by_name"
    /\ \E rows \in OrderBy(db, ByName(db)) : Stdout(NamesOf(rows))
    /\ Go
    /\ UNCHANGED <<clock, enrolled_default, new_students, db, committed, loaded,
                   deleted, students, student_count, albert_einstein>>

\* session.query(Student.name, Student.grade).order_by(desc(Student.grade))
ReadByGradeDesc ==
    /\ pc = "read_by_grade_desc"
    /\ \E rows \in OrderBy(db, ByGradeDesc(db)) : Stdout(NameGrades(rows))
    /\ Go
    /\ UNCHANGED <<clock, enrolled_default, new_students, db, committed, loaded,
                   deleted, students, student_count, albert_einstein>>

\* session.query(Student.name, Student.birthday).order_by(desc(Student.grade)).limit(1)
ReadOldest ==
    /\ pc = "read_oldest"
    /\ \E rows \in OrderBy(db, ByGradeDesc(db)) : Stdout(NameBirthdays(First(rows)))
    /\ Go
    /\ UNCHANGED <<clock, enrolled_default, new_students, db, committed, loaded,
                   deleted, students, student_count, albert_einstein>>

\* student_count = session.query(func.count(Student.id)).first()
CountStudents ==
    /\ pc = "count"
    /\ student_count' = Count(db)
    /\ Stdout(<<Count(db)>>)
    /\ Go
    /\ UNCHANGED <<clock, enrolled_default, new_students, db, committed, loaded,
                   deleted, students, albert_einstein>>

\* for record in query: print(record.name), query filtered on %Alan% and grade 11
FilterAlan ==
    /\ pc = "filter_alan"
    /\ loaded' = Load(FilterAlan11(db))
    /\ Stdout(NamesOf(FilterAlan11(db)))
    /\ Go
    /\ UNCHANGED <<clock, enrolled_default, new_students, db, committed, deleted,
                   students, student_count, albert_einstein>>

\* student.grade += 1 and Student.grade + 1
Increment(grade) == grade + 1

\* variant of UpdateAll: the CHECK is not applied to updates
UpdateAllUnchecked(tbl) ==
    [ok |-> TRUE,
     table |-> [i \in 1..Len(tbl) |-> [tbl[i] EXCEPT !.grade = Increment(@)]]]

\* variant of UpdateAll: the rows updated before the failing one stay updated
UpdateAllPartial(tbl) ==
    IF \A i \in 1..Len(tbl) : CheckGrade(Increment(tbl[i].grade))
    THEN [ok |-> TRUE,
          table |-> [i \in 1..Len(tbl) |-> [tbl[i] EXCEPT !.grade = Increment(@)]]]
    ELSE [ok |-> FALSE,
          table |-> [i \in 1..Len(tbl) |->
                       IF \A j \in 1..i : CheckGrade(Increment(tbl[j].grade))
                       THEN [tbl[i] EXCEPT !.grade = Increment(@)]
                       ELSE tbl[i]]]

\* UPDATE students SET grade = grade + 1: every row or, when a new grade
\* breaks the CHECK, none (the statement is undone) and an error
UpdateAll(tbl) ==
    IF \A i \in 1..Len(tbl) : CheckGrade(Increment(tbl[i].grade))
    THEN [ok |-> TRUE,
          table |-> [i \in 1..Len(tbl) |-> [tbl[i] EXCEPT !.grade = Increment(@)]]]
    ELSE [ok |-> FALSE, table |-> tbl]

\* variant of DeleteWhere: the condition inverted
DeleteWhereNot(tbl, name) == SelectSeq(tbl, LAMBDA r : r.name = name)

\* DELETE FROM students WHERE name = :name
DeleteWhere(tbl, name) == SelectSeq(tbl, LAMBDA r : r.name # name)

\* for student in session.query(Student): student.grade += 1  (in memory only)
UpdateLoop ==
    /\ pc = "update_loop"
    /\ loaded' = {[o EXCEPT !.grade = Increment(@)] : o \in Load(SelectAll(db))}
    /\ Go
    /\ UNCHANGED <<clock, enrolled_default, new_students, db, committed, deleted,
                   students, student_count, albert_einstein, printed>>

\* session.commit() after the loop: the flush writes the new grades
CommitUpdate ==
    /\ pc = "commit_update"
    /\ Commit
    /\ UNCHANGED <<clock, enrolled_default, new_students, students, student_count,
                   albert_einstein, printed>>

\* print([(student.name, student.grade) for student in session.query(Student)])
ReadAfterUpdate ==
    /\ pc = "read_after_update"
    /\ loaded' = Load(SelectAll(db))
    /\ Stdout(NameGrades(Objects(Load(SelectAll(db)), SelectAll(db))))
    /\ Go
    /\ UNCHANGED <<clock, enrolled_default, new_students, db, committed, deleted,
                   students, student_count, albert_einstein>>

\* session.query(Student).update({Student.grade: Student.grade + 1}): one
\* UPDATE in the open transaction, mirrored on the session's objects; no commit
QueryUpdate ==
    /\ pc = "query_update"
    /\ LET r == UpdateAll(db) IN
         IF r.ok
         THEN /\ db' = r.table
              /\ loaded' = {[o EXCEPT !.grade = Increment(@)] : o \in loaded}
              /\ Go
         ELSE /\ db' = r.table
              /\ loaded' = loaded
              /\ Raise("IntegrityError")
    /\ UNCHANGED <<clock, enrolled_default, new_students, committed, deleted,
                   students, student_count, albert_einstein, printed>>

\* the same print after the set-based update
ReadAfterQueryUpdate ==
    /\ pc = "read_after_query_update"
    /\ loaded' = Load(SelectAll(db))
    /\ Stdout(NameGrades(Objects(Load(SelectAll(db)), SelectAll(db))))
    /\ Go
    /\ UNCHANGED <<clock, enrolled_default, new_students, db, committed, deleted,
                   students, student_count, albert_einstein>>

\* query = ...filter(Student.name == "Albert Einstein"); albert_einstein = query.first()
FirstForDelete ==
    /\ pc = "first_for_delete"
    /\ albert_einstein' = First(FilterByName(db, Einstein))
    /\ loaded' = Load(First(FilterByName(db, Einstein)))
    /\ Go
    /\ UNCHANGED <<clock, enrolled_default, new_students, db, committed, deleted,
                   students, student_count, printed>>

\* session.delete(albert_einstein): None is not a mapped instance
SessionDelete ==
    /\ pc = "session_delete"
    /\ IF albert_einstein = <<>>
       THEN deleted' = deleted /\ Raise("UnmappedInstanceError")
       ELSE deleted' = deleted \cup {albert_einstein[1].id} /\ Go
    /\ UNCHANGED <<clock, enrolled_default, new_students, db, committed, loaded,
                   students, student_count, albert_einstein, printed>>

\* session.commit() after the delete: the flush issues the DELETE
CommitDelete ==
    /\ pc = "commit_delete"
    /\ Commit
    /\ UNCHANGED <<clock, enrolled_default, new_students, students, student_count,
                   albert_einstein, printed>>

\* albert_einstein = query.first(); print(albert_einstein)
FirstAfterDelete ==
    /\ pc = "first_after_delete"
    /\ albert_einstein' = First(FilterByName(db, Einstein))
    /\ loaded' = Load(First(FilterByName(db, Einstein)))
    /\ Stdout(Reprs(First(FilterByName(db, Einstein))))
    /\ Go
    /\ UNCHANGED <<clock, enrolled_default, new_students, db, committed, deleted,
                   students, student_count>>

\* query.delete() on the same filter: one DELETE in the open transaction, the
\* matching objects leave the session; no commit
QueryDelete ==
    /\ pc = "query_delete"
    /\ db' = DeleteWhere(db, Einstein)
    /\ loaded' = {o \in loaded : \E i \in 1..Len(db') : db'[i].id = o.id}
    /\ Go
    /\ UNCHANGED <<clock, enrolled_default, new_students, committed, deleted,
                   students, student_count, albert_einstein, printed>>

\* albert_einstein = query.first(); print(albert_einstein)
FirstAfterQueryDelete ==
    /\ pc = "first_after_query_delete"
    /\ albert_einstein' = First(FilterByName(db, Einstein))
    /\ loaded' = Load(First(FilterByName(db, Einstein)))
    /\ Stdout(Reprs(First(FilterByName(db, Einstein))))
    /\ Go
    /\ UNCHANGED <<clock, enrolled_default, new_students, db, committed, deleted,
                   students, student_count>>

Next ==
    \/ DefineStudent
    \/ CreateAll
    \/ Construct
    \/ BulkSaveObjects
    \/ CommitInsert
    \/ ReadAll
    \/ ReadNames
    \/ ReadByName
    \/ ReadByGradeDesc
    \/ ReadOldest
    \/ CountStudents
    \/ FilterAlan
    \/ UpdateLoop
    \/ CommitUpdate
    \/ ReadAfterUpdate
    \/ QueryUpdate
    \/ ReadAfterQueryUpdate
    \/ FirstForDelete
    \/ SessionDelete
    \/ CommitDelete
    \/ FirstAfterDelete
    \/ QueryDelete
    \/ FirstAfterQueryDelete

Spec == Init /\ [][Next]_vars

\* ------------------------------------------------------------ vocabulary
\* the statement the script is at, or the one that ended it
At == IF pc = "crashed" THEN crashed_at ELSE pc

\* statement `label` has run to its end
Reached(label) == Before(label, At)

\* statement `label` has run, to its end or into an exception
Issued(label) == Reached(label) \/ (pc = "crashed" /\ crashed_at = label)

\* the grade with which the student holding this row's email was constructed
Original(row) ==
    (CHOOSE o \in {new_students[i] : i \in 1..Len(new_students)} : o.email = row.email).grade

Einsteins(tbl) == {i \in 1..Len(tbl) : tbl[i].name = Einstein}

RunsScript == Given(new_students) = ScriptStudents

C2_StoredGradeInRange ==
    /\ \A i \in 1..Len(db) : db[i].grade \in 1..12
    /\ \A i \in 1..Len(committed) : committed[i].grade \in 1..12

\* the session holds an object with grade 13 in memory while its row stays at 12
C2_Witness ==
    /\ pc = "commit_update"
    /\ \E o \in loaded : o.grade = 13 /\ \E i \in 1..Len(db) : db[i].id = o.id /\ db[i].grade = 12

\* -------------------------------------------------------------------- C3
\* C3: a bulk save of a list holding a student with grade 0 or 13 raises a
\* constraint violation, and the table is afterwards what it was before the
\* bulk save (empty), in the transaction and as committed.
C3_BadGradeRejected ==
    (Issued("bulk_save_objects") /\ \E i \in 1..Len(new_students) : new_students[i].grade \in {0, 13}) =>
        /\ pc = "crashed" /\ crashed_at = "bulk_save_objects"
        /\ error = "IntegrityError"
        /\ db = <<>>
        /\ committed = <<>>

\* the bad student comes second, after one the table had accepted
C3_Witness ==
    /\ pc = "crashed" /\ crashed_at = "bulk_save_objects"
    /\ Len(new_students) = 2
    /\ new_students[1].grade = 6
    /\ new_students[2].grade \in {0, 13}
    /\ new_students[1].email # new_students[2].email
    /\ db = <<>>

\* -------------------------------------------------------------------- C4
\* C4: a bulk save of a list in which two students share an email raises a
\* constraint violation, and no reachable table holds two rows with one email.
C4_EmailUnique ==
    /\ \A i, j \in 1..Len(db) : i # j => db[i].email # db[j].email
    /\ \A i, j \in 1..Len(committed) : i # j => committed[i].email # committed[j].email
    /\ (Issued("bulk_save_objects") /\
        \E i, j \in 1..Len(new_students) : i # j /\ new_students[i].email = new_students[j].email) =>
           /\ pc = "crashed" /\ crashed_at = "bulk_save_objects"
           /\ error = "IntegrityError"

C4_Witness ==
    /\ pc = "crashed" /\ crashed_at = "bulk_save_objects"
    /\ Len(new_students) = 2
    /\ new_students[1].email = new_students[2].email
    /\ new_students[1].grade = 6 /\ new_students[2].grade = 6
    /\ new_students[1].name # new_students[2].name

C7_CountIsN ==
    /\ (Reached("bulk_save_objects") /\ ~Reached("commit_delete")) =>
          Len(db) = Len(new_students)
    /\ Reached("count") => student_count = Len(new_students)
    /\ (RunsScript /\ Reached("count")) => student_count = 2

C7_Witness ==
    /\ pc = "first_for_delete"
    /\ Len(new_students) = 2
    /\ student_count = 2
    /\ Len(db) = 2

\* -------------------------------------------------------------------- C8
\* C8: after a bulk save of accepted students and its commit, the unordered
\* read returns exactly those students in list order, with distinct ids.
C8_ReadInInsertionOrder ==
    Reached("read_all") =>
        /\ Given(students) = Given(new_students)
        /\ \A i, j \in 1..Len(students) : i # j => students[i].id # students[j].id

\* insertion order, not name order
C8_Witness ==
    /\ pc = "read_names"
    /\ Len(students) = 2
    /\ students[1].name = Einstein /\ students[2].name = Turing
    /\ students[1].id # students[2].id

\* -------------------------------------------------------------------- C9
\* C9: every stored student's enrolled_date is the time at which the student
\* was created, so students created at different times differ in it.
C9_EnrolledAtCreation ==
    /\ \A i \in 1..Len(db) : db[i].enrolled_date = db[i].created
    /\ \A i, j \in 1..Len(db) :
          db[i].created # db[j].created => db[i].enrolled_date # db[j].enrolled_date

\* ------------------------------------------------------------------- C10
\* C10: the step in which an exception is raised ends the script there,
\* prints nothing and leaves the committed table as it was; after it no
\* statement runs.
C10_FailureEndsScript ==
    [][ /\ error # "none" => UNCHANGED vars
        /\ (error = "none" /\ error' # "none") =>
              /\ pc' = "crashed"
              /\ crashed_at' = pc
              /\ committed' = committed
              /\ printed' = printed ]_vars

\* the script died in session.delete(None) with the set-based update uncommitted
C10_Witness ==
    /\ pc = "crashed"
    /\ error = "UnmappedInstanceError"
    /\ crashed_at = "session_delete"
    /\ db # committed
    /\ Len(printed) > 0

====
